---- MODULE Spec2Model ----
(***************************************************************************)
(* Model of portkey-rs (src/src/lib.rs): Client::new assembles an          *)
(* async-openai client whose reqwest transport carries the routing header  *)
(* x-portkey-virtual-key, and Client::openai hands that client out by      *)
(* value.  Strings are sequences of byte values.                           *)
(***************************************************************************)
EXTENDS Integers, Sequences, FiniteSets, TLC

\* Longest api_key / virtual_key the model draws.
MaxLen == 2
\* Most requests issued through the provider client in one behaviour.
MaxRequests == 2

\* Byte values the inputs are drawn from: tab, newline, 'a', DEL.
Bytes == {9, 10, 97, 127}

Strs == UNION {[1..n -> Bytes] : n \in 0..MaxLen}

BASE_URL == "https://api.portkey.ai/v1"

\* Base URL of OpenAIConfig::new() before with_api_base overrides it.
OPENAI_API_BASE == "https://api.openai.com/v1"

VIRTUAL_KEY_HEADER == "x-portkey-virtual-key"

PANIC_PARSE == "Failed to parse virtual key"

PANIC_BUILD == "Failed to build reqwest client"

VARIABLES
    client,     \* the caller's Client value: {} or {the struct}
    provider,   \* the caller's OpenAIClient returned by openai(): {} or {it}
    outcome,    \* how the last Client::new call ended
    call,       \* the arguments of the last Client::new call
    requests    \* the requests issued through the provider client

vars == <<client, provider, outcome, call, requests>>

----------------------------------------------------------------------------
\* HeaderValue accepts a byte b iff b >= 32 && b != 127 || b == '\t'.
IsValidHeaderByte(b) == (b >= 32 /\ b # 127) \/ b = 9

\* Mutant: whitespace is stripped from the value before it is stored.
HeaderValueFromStrStripped(src) ==
    LET ok == \A i \in 1..Len(src) : IsValidHeaderByte(src[i])
    IN  [ok |-> ok,
         value |-> IF ok THEN SelectSeq(src, LAMBDA b : b # 9) ELSE <<>>]

\* Mutant: invalid bytes are dropped instead of rejected.
HeaderValueFromStrSanitized(src) ==
    [ok |-> TRUE, value |-> SelectSeq(src, IsValidHeaderByte)]

\* Mutant: an empty value is rejected.
HeaderValueFromStrNonEmpty(src) ==
    LET ok == Len(src) > 0 /\ \A i \in 1..Len(src) : IsValidHeaderByte(src[i])
    IN  [ok |-> ok, value |-> IF ok THEN src ELSE <<>>]

\* virtual_key.parse::<HeaderValue>(): every byte is validated, then copied.
HeaderValueFromStr(src) ==
    LET ok == \A i \in 1..Len(src) : IsValidHeaderByte(src[i])
    IN  [ok |-> ok,
         value |-> IF ok THEN [i \in 1..Len(src) |-> src[i]] ELSE <<>>]

HeaderMapNew == [n \in {} |-> <<>>]

HeaderMapInsert(map, key, value) ==
    [n \in (DOMAIN map) \cup {key} |-> IF n = key THEN value ELSE map[n]]

\* Lines 77-81: the header map, or the panic of expect().
NewHeaders(virtual_key) ==
    LET parsed == HeaderValueFromStr(virtual_key)
    IN  [ok |-> parsed.ok,
         value |-> IF parsed.ok
                   THEN HeaderMapInsert(HeaderMapNew, VIRTUAL_KEY_HEADER, parsed.value)
                   ELSE HeaderMapNew]

\* Mutant: a failed build falls back to a default transport.
NewTransportFallback(headers, build_ok) ==
    [ok |-> TRUE,
     value |-> [default_headers |-> IF build_ok THEN headers ELSE HeaderMapNew]]

\* Lines 82-85: ReqwestClient::builder().default_headers(..).build(), or the
\* panic of expect(); build_ok is whether the transport could be initialised.
NewTransport(headers, build_ok) ==
    [ok |-> build_ok,
     value |-> [default_headers |-> IF build_ok THEN headers ELSE HeaderMapNew]]

OpenAIConfigNew == [api_base |-> OPENAI_API_BASE, api_key |-> <<>>]

\* Mutant: the base URL override is lost.
WithApiBaseIgnored(config, api_base) == config

WithApiBase(config, api_base) == [config EXCEPT !.api_base = api_base]

WithApiKey(config, api_key) ==
    [config EXCEPT !.api_key = [i \in 1..Len(api_key) |-> api_key[i]]]

\* Lines 87-89.
NewConfig(api_key) == WithApiKey(WithApiBase(OpenAIConfigNew, BASE_URL), api_key)

WithConfig(config) == [config |-> config, http_client |-> [default_headers |-> HeaderMapNew]]

WithHttpClient(openai_client, http_client) ==
    [openai_client EXCEPT !.http_client = http_client]

\* Mutant: the retained fields are filled from the wrong arguments.
NewSelfCrossed(openai, api_key, virtual_key) ==
    [openai |-> openai, base_url |-> BASE_URL,
     virtual_key |-> api_key, api_key |-> virtual_key]

\* Lines 93-98: the struct literal.
NewSelf(openai, api_key, virtual_key) ==
    [openai |-> openai, base_url |-> BASE_URL,
     virtual_key |-> virtual_key, api_key |-> api_key]

\* Lines 76-99 in the order the code runs them.
ClientNewBody(api_key, virtual_key, build_ok) ==
    LET reqwest_headers == NewHeaders(virtual_key)
        reqwest_client == NewTransport(reqwest_headers.value, build_ok)
        openai_config == NewConfig(api_key)
        openai == WithHttpClient(WithConfig(openai_config), reqwest_client.value)
    IN  IF ~reqwest_headers.ok THEN [outcome |-> PANIC_PARSE, value |-> {}]
        ELSE IF ~reqwest_client.ok THEN [outcome |-> PANIC_BUILD, value |-> {}]
        ELSE [outcome |-> "ok", value |-> {NewSelf(openai, api_key, virtual_key)}]

\* Mutant: the two &str arguments are used in the wrong order.
ClientNewSwapped(api_key, virtual_key, build_ok) ==
    ClientNewBody(virtual_key, api_key, build_ok)

ClientNew(api_key, virtual_key, build_ok) ==
    ClientNewBody(api_key, virtual_key, build_ok)

\* Mutant: the provider client is rebuilt from the retained fields.
ClientOpenaiRebuilt(self) ==
    WithConfig(WithApiKey(WithApiBase(OpenAIConfigNew, self.base_url), self.api_key))

\* Lines 117-119.
ClientOpenai(self) == self.openai

\* What a request issued through the provider client carries.
RequestOf(openai) ==
    [url_base |-> openai.config.api_base,
     bearer |-> openai.config.api_key,
     headers |-> openai.http_client.default_headers]

----------------------------------------------------------------------------
Init ==
    /\ client = {}
    /\ provider = {}
    /\ outcome = "none"
    /\ call = [api_key |-> <<>>, virtual_key |-> <<>>, build_ok |-> TRUE]
    /\ requests = <<>>

\* let client = Client::new(api_key, virtual_key);  A panic unwinds out of
\* the caller, so the call is made once per behaviour.
New ==
    /\ outcome = "none"
    /\ \E api_key \in Strs, virtual_key \in Strs, build_ok \in BOOLEAN :
        LET r == ClientNew(api_key, virtual_key, build_ok)
        IN  /\ client' = r.value
            /\ outcome' = r.outcome
            /\ call' = [api_key |-> api_key, virtual_key |-> virtual_key,
                        build_ok |-> build_ok]
    /\ UNCHANGED <<provider, requests>>

\* Mutant: openai() takes &self and hands out a copy.
OpenaiBorrowed ==
    /\ client # {}
    /\ provider' = {ClientOpenai(c) : c \in client}
    /\ UNCHANGED <<client, outcome, call, requests>>

\* let openai_client = client.openai();  (self is moved)
Openai ==
    /\ client # {}
    /\ provider' = {ClientOpenai(c) : c \in client}
    /\ client' = {}
    /\ UNCHANGED <<outcome, call, requests>>

\* Mutant: the credential is taken out of the configuration when it is used.
RequestTakingKey ==
    /\ provider # {}
    /\ Len(requests) < MaxRequests
    /\ \E p \in provider :
        /\ requests' = Append(requests, RequestOf(p))
        /\ provider' = {[p EXCEPT !.config.api_key = <<>>]}
    /\ UNCHANGED <<client, outcome, call>>

\* A call made through the provider client (&self).
Request ==
    /\ provider # {}
    /\ Len(requests) < MaxRequests
    /\ \E p \in provider : requests' = Append(requests, RequestOf(p))
    /\ UNCHANGED <<client, provider, outcome, call>>

Next == New \/ Openai \/ Request

Spec == Init /\ [][Next]_vars

----------------------------------------------------------------------------
\* The provider clients that exist: embedded in the wrapper, or handed out.
Embedded == {c.openai : c \in client} \cup provider

RoutingHeaders(value) == [n \in {VIRTUAL_KEY_HEADER} |-> value]

\* s can be represented as an HTTP header value.
Encodable(s) == \A i \in 1..Len(s) : s[i] = 9 \/ (s[i] >= 32 /\ s[i] # 127)

\* What every request must carry, from the arguments of the call alone.
Expected ==
    [url_base |-> "https://api.portkey.ai/v1",
     bearer |-> call.api_key,
     headers |-> RoutingHeaders(call.virtual_key)]

Phase ==
    IF client # {} THEN "constructed"
    ELSE IF provider # {} THEN "unwrapped"
    ELSE "unconstructed"

----------------------------------------------------------------------------
\* C1: after a successful Client::new the transport's default headers are
\* exactly {x-portkey-virtual-key: virtual_key}, byte for byte, and every
\* request issued carries that one custom header and no other (so api_key is
\* never a custom header).
C1_RoutingHeaderExact ==
    /\ \A o \in Embedded :
        /\ DOMAIN o.http_client.default_headers = {VIRTUAL_KEY_HEADER}
        /\ o.http_client.default_headers[VIRTUAL_KEY_HEADER] = call.virtual_key
    /\ \A i \in 1..Len(requests) :
        /\ DOMAIN requests[i].headers = {VIRTUAL_KEY_HEADER}
        /\ requests[i].headers[VIRTUAL_KEY_HEADER] = call.virtual_key

C1_Witness ==
    /\ Len(requests) >= 1
    /\ call.virtual_key = <<9, 97>>
    /\ call.api_key = <<97>>

\* C2: after a successful Client::new the bearer credential of the embedded
\* provider client, and of every request, is the supplied api_key exactly,
\* whatever virtual_key is.
C2_BearerIsApiKey ==
    /\ \A o \in Embedded : o.config.api_key = call.api_key
    /\ \A i \in 1..Len(requests) : requests[i].bearer = call.api_key

C2_Witness ==
    /\ Len(requests) >= 1
    /\ call.api_key = <<97, 10>>
    /\ call.virtual_key = <<97>>

\* C3: after a successful Client::new the base URL of the embedded
\* configuration is "https://api.portkey.ai/v1" for every pair of inputs.
C3_BaseUrlFixed ==
    /\ \A o \in Embedded : o.config.api_base = "https://api.portkey.ai/v1"
    /\ \A i \in 1..Len(requests) : requests[i].url_base = "https://api.portkey.ai/v1"

C3_Witness ==
    /\ client # {}
    /\ call.api_key = <<10>>
    /\ call.virtual_key = <<97, 9>>

\* C4: a virtual_key that is not a valid header value makes Client::new fail
\* with the header-encoding failure, and no Client, no provider client and no
\* request exists afterwards.
C4_InvalidVirtualKeyFails ==
    (outcome # "none" /\ ~Encodable(call.virtual_key)) =>
        /\ outcome = PANIC_PARSE
        /\ client = {}
        /\ provider = {}
        /\ requests = <<>>

C4_Witness ==
    /\ outcome = PANIC_PARSE
    /\ call.virtual_key = <<97, 10>>
    /\ call.build_ok

\* C5: when the transport cannot be built Client::new fails as a whole: for a
\* valid virtual_key the failure is the transport failure, and no Client, no
\* provider client and no request exists afterwards.
C5_TransportFailureIsWhole ==
    (outcome # "none" /\ ~call.build_ok) =>
        /\ outcome \in {PANIC_PARSE, PANIC_BUILD}
        /\ Encodable(call.virtual_key) => outcome = PANIC_BUILD
        /\ Embedded = {}
        /\ requests = <<>>

C5_Witness ==
    /\ outcome = PANIC_BUILD
    /\ call.virtual_key = <<97>>
    /\ ~call.build_ok

\* C6: the lifecycle is unconstructed -> constructed -> unwrapped and never
\* goes back; constructed is entered only by a successful Client::new;
\* openai() is enabled exactly in constructed and leaves no wrapper behind;
\* a wrapper that exists is fully assembled.
C6_Lifecycle ==
    /\ [](client = {} \/ provider = {})
    /\ []((ENABLED Openai) <=> Phase = "constructed")
    /\ [](\A c \in client : outcome = "ok" /\ RequestOf(c.openai) = Expected)
    /\ [][/\ Phase = "unconstructed" => Phase' \in {"unconstructed", "constructed"}
          /\ (Phase = "unconstructed" /\ Phase' = "constructed") =>
                (outcome = "none" /\ outcome' = "ok")
          /\ Phase = "constructed" => Phase' \in {"constructed", "unwrapped"}
          /\ Phase = "unwrapped" => Phase' = "unwrapped"]_vars

C6_Witness ==
    /\ Phase = "unwrapped"
    /\ Len(requests) >= 1
    /\ call.virtual_key = <<97>>

\* C7: once assembled, the provider client is never changed by openai() or by
\* requests, and every request carries the base URL, the bearer credential and
\* the routing header fixed by the call.
C7_NoMutationAfterAssembly ==
    /\ [][Embedded # {} => Embedded' = Embedded]_vars
    /\ [](\A i \in 1..Len(requests) : requests[i] = Expected)

C7_Witness ==
    /\ Len(requests) >= 2
    /\ call.api_key = <<97, 97>>
    /\ call.virtual_key = <<9>>

\* C8: openai() returns exactly the provider client Client::new assembled.
C8_UnwrapReturnsAssembled ==
    /\ [][(client # {} /\ provider' # provider) =>
            provider' = {c.openai : c \in client}]_vars
    /\ [](\A p \in provider : RequestOf(p) = Expected)

C8_Witness ==
    /\ provider # {}
    /\ requests = <<>>
    /\ call.api_key = <<9>>
    /\ call.virtual_key = <<97, 97>>

\* C9: the retained fields hold the base URL and the two arguments, agree with
\* the embedded provider client, are not written while the wrapper exists, and
\* openai() does not depend on them.
C9_RetainedFields ==
    /\ [](\A c \in client :
            /\ c.base_url = "https://api.portkey.ai/v1"
            /\ c.virtual_key = call.virtual_key
            /\ c.api_key = call.api_key
            /\ c.base_url = c.openai.config.api_base
            /\ c.api_key = c.openai.config.api_key
            /\ c.virtual_key = c.openai.http_client.default_headers[VIRTUAL_KEY_HEADER]
            /\ \A s \in Strs :
                ClientOpenai([c EXCEPT !.api_key = s, !.virtual_key = s,
                                       !.base_url = OPENAI_API_BASE])
                    = ClientOpenai(c))
    /\ [][(client # {} /\ client' # {}) => client' = client]_vars

C9_Witness ==
    /\ client # {}
    /\ call.api_key = <<97, 9>>
    /\ call.virtual_key = <<9, 97>>

\* C10: Client::new succeeds exactly when virtual_key is a valid header value
\* and the transport could be built; api_key plays no part, and an empty
\* virtual_key is accepted.
C10_FailureIndependentOfApiKey ==
    outcome # "none" =>
        (outcome = "ok" <=> (Encodable(call.virtual_key) /\ call.build_ok))

C10_Witness ==
    /\ outcome = "ok"
    /\ call.virtual_key = <<>>
    /\ call.api_key = <<10, 127>>

====
